---- MODULE Spec2Model ----
(***************************************************************************)
(* Model of the Paperless-NGX / Azure OCR integration:                     *)
(*   update_ocr.py    the batch run (process_documents) and its helpers    *)
(*   function_app.py  the HTTP single-document handler                     *)
(* The document-management API, the OCR engine and the secret store are    *)
(* the environment: every remote call answers with one of the responses   *)
(* the remote can give (a status code, or the call raising).               *)
(***************************************************************************)
EXTENDS Integers, Sequences, FiniteSets, TLC

\* ---------------------------------------------------------------- bounds
\* Number of documents held by the remote service.
NumDocs == 3
\* Page size of the list query.  The source uses 10 (update_ocr.py:17); the
\* model pages through NumDocs documents with a smaller page so that a run
\* needs more than one page.
BATCH_SIZE == 2
\* Longest custom-field list handed to the upsert loop on its own.
MaxFields == 3
\* Number of distinct custom fields such a list draws from.
NumFields == 3

\* ------------------------------------------------------ program constants
CUSTOM_FIELD_ID == 2
\* a second custom field that documents may carry
OtherFieldId == CUSTOM_FIELD_ID - 1
ThirdFieldId == CUSTOM_FIELD_ID + 1
\* a remote call that raised instead of answering (requests raises)
Raised == 0
\* a request that was not issued
NotIssued == -1

Docs == 1..NumDocs
\* an id no document has
MissingDoc == NumDocs + 1

\* ------------------------------------------------------------- pure parts

\* Python truthiness of a file path: None is modelled as 0.
NoPath == 0

\* get_custom_field: None (found = FALSE) unless the status is 200.
GetCustomFieldAlways(status) == [found |-> TRUE, id |-> CUSTOM_FIELD_ID]
GetCustomField(status) ==
    IF status # 200 THEN [found |-> FALSE, id |-> 0]
    ELSE [found |-> TRUE, id |-> CUSTOM_FIELD_ID]

\* The text of one page: every line followed by a newline.
RECURSIVE PageText(_)
PageText(lines) ==
    IF lines = <<>> THEN <<>>
    ELSE <<Head(lines), "\n">> \o PageText(Tail(lines))

\* process_with_azure_ocr, the accumulation loop over pages and lines.
ExtractContentLastPage(pages) ==
    IF pages = <<>> THEN <<>> ELSE PageText(pages[Len(pages)])
RECURSIVE ExtractContent(_)
ExtractContent(pages) ==
    IF pages = <<>> THEN <<>>
    ELSE PageText(Head(pages)) \o ExtractContent(Tail(pages))

\* process_with_azure_ocr: the engine raising gives None (ok = FALSE).
\* pages keeps the engine's result next to the text extracted from it.
OcrNone == [ok |-> FALSE, text |-> <<>>, pages |-> <<>>]
ProcessWithAzureOcr(engineOk, pages) ==
    IF engineOk THEN [ok |-> TRUE, text |-> ExtractContent(pages), pages |-> pages]
    ELSE OcrNone

\* `not content`: None or the empty string.
NoContentNoneOnly(c) == ~c.ok
NoContent(c) == ~c.ok \/ c.text = <<>>

\* update_document_content, the loop that builds custom_fields.
FlagEntry(fid) == [field |-> fid, value |-> TRUE]
FieldExists(cfs, fid) == \E i \in 1..Len(cfs) : cfs[i].field = fid
UpsertFlagOnly(cfs, fid) == <<FlagEntry(fid)>>
UpsertAppendAlways(cfs, fid) ==
    [i \in 1..Len(cfs) |-> IF cfs[i].field = fid THEN FlagEntry(fid) ELSE cfs[i]]
        \o <<FlagEntry(fid)>>
Upsert(cfs, fid) ==
    LET replaced == [i \in 1..Len(cfs) |->
                        IF cfs[i].field = fid THEN FlagEntry(fid) ELSE cfs[i]]
    IN  IF FieldExists(cfs, fid) THEN replaced
        ELSE replaced \o <<FlagEntry(fid)>>

\* update_document_content, success test of the PATCH response.
PatchOk(status) == status \in {200, 202}

\* The remote service stores a PATCH exactly when it answers 200 or 202.
RemoteApplies(status) == status \in {200, 202}

\* update_document_content: the record GET answered gr, the PATCH answered pr.
\* result: "true", "false", or "raise" when a request raised; rec: the
\* record the remote holds afterwards; calls: the requests issued.
UpdateDocumentContentNoGetCheck(rec, content, fid, gr, pr) ==
    LET custom_fields == Upsert(rec.custom_fields, fid) IN
    IF gr = Raised THEN [result |-> "raise", rec |-> rec, calls |-> {"get"}]
    ELSE IF pr = Raised THEN [result |-> "raise", rec |-> rec, calls |-> {"get", "patch"}]
    ELSE [result |-> IF PatchOk(pr) THEN "true" ELSE "false",
          rec |-> IF RemoteApplies(pr)
                  THEN [rec EXCEPT !.content = content, !.custom_fields = custom_fields]
                  ELSE rec,
          calls |-> {"get", "patch"}]
UpdateDocumentContent(rec, content, fid, gr, pr) ==
    LET custom_fields == Upsert(rec.custom_fields, fid) IN
    IF gr = Raised THEN [result |-> "raise", rec |-> rec, calls |-> {"get"}]
    ELSE IF gr # 200 THEN [result |-> "false", rec |-> rec, calls |-> {"get"}]
    ELSE IF pr = Raised THEN [result |-> "raise", rec |-> rec, calls |-> {"get", "patch"}]
    ELSE [result |-> IF PatchOk(pr) THEN "true" ELSE "false",
          rec |-> IF RemoteApplies(pr)
                  THEN [rec EXCEPT !.content = content, !.custom_fields = custom_fields]
                  ELSE rec,
          calls |-> {"get", "patch"}]

\* The remote filter: the flag field does not exist on the document, or is
\* exactly false.
IsPending(cfs, fid) ==
    \/ ~FieldExists(cfs, fid)
    \/ \E i \in 1..Len(cfs) : cfs[i].field = fid /\ cfs[i].value = FALSE

\* ordering=-added: the newest document first (a larger id was added later).
RECURSIVE NewestFirst(_)
NewestFirst(S) ==
    IF S = {} THEN <<>>
    ELSE LET m == CHOOSE x \in S : \A y \in S : y <= x
         IN  <<m>> \o NewestFirst(S \ {m})

FirstN(s, n) == SubSeq(s, 1, IF Len(s) < n THEN Len(s) ELSE n)

\* cleanup: remove the file if the path is set and the file exists.
Cleanup(fs, path) == IF path # NoPath /\ path \in fs THEN fs \ {path} ELSE fs

\* ------------------------------------------------------------ environment
\* Recognition results the OCR engine can return: no line at all, or two
\* pages of lines.
OcrPages == { <<>>, << <<"a", "b">>, <<"c">> >> }

\* Custom-field lists a document can carry before it is processed.
InitFieldLists ==
    { <<>>,
      << [field |-> CUSTOM_FIELD_ID, value |-> FALSE] >>,
      << [field |-> ThirdFieldId, value |-> TRUE],
         [field |-> CUSTOM_FIELD_ID, value |-> TRUE],
         [field |-> OtherFieldId, value |-> TRUE] >> }

OldContent == <<"old">>

VARIABLES
    \* remote document service
    fieldExists,      \* custom field CUSTOM_FIELD_ID exists remotely
    docs,             \* document id -> record (title, content, custom_fields)
    \* local scratch storage: ids d whose file /tmp/paperless_doc_<d>.pdf exists
    files,
    \* process_documents
    bpc,              \* position of the batch run
    documents,        \* the fetched page (document ids, newest first)
    idx,              \* position of the for loop in the page
    custom_field_id,  \* flag field id returned with the page
    b_file_path,      \* file_path of the document in progress
    b_content,        \* content returned by OCR
    count,            \* last value returned by the count function (-1: none)
    \* process_single_document
    hpc,              \* position of the HTTP handler
    h_document_id,
    h_field,          \* azure_ocr_field
    h_file_path,
    h_content,
    response,         \* the HttpResponse returned (status, message)
    \* observation of the run (not program state)
    pendingAtStart,   \* documents pending when the batch run started
    runCalls,         \* kinds of remote call issued by the batch run so far
    attempted,        \* documents of the current page whose download was requested
    bcalls,           \* remote calls of the batch sub-flow in progress
    bresp,            \* answers to the requests of the last count or list step
    attemptedRun,     \* documents whose download was requested in this run
    retried,          \* a download was requested twice for a document in this run
    hcalls,           \* remote calls of the HTTP sub-flow in progress
    request,          \* the body of the HTTP request being served
    last,             \* the per-document sub-flow that ended in the step just taken
    \* the upsert loop of update_document_content on its own
    cf_in,            \* the custom-field list of the fetched record
    cf_out,           \* the custom-field list built from it
    cf_done           \* the loop has run

remoteVars == <<fieldExists, docs>>
batchVars  == <<bpc, documents, idx, custom_field_id, b_file_path, b_content, count>>
httpVars   == <<hpc, h_document_id, h_field, h_file_path, h_content, response>>
batchObs   == <<pendingAtStart, runCalls, attempted, bcalls, bresp, attemptedRun,
                retried>>
httpObs    == <<hcalls, request>>
upsertVars == <<cf_in, cf_out, cf_done>>
vars == <<remoteVars, files, batchVars, httpVars, batchObs, httpObs, last, upsertVars>>

NoField    == [found |-> FALSE, id |-> 0]
NoRequest  == [json |-> FALSE, document_id |-> 0]
NoResponse == [status |-> 0, message |-> "none"]
NoLast     == [who |-> "none", doc |-> 0, outcome |-> "none", created |-> FALSE,
               leaked |-> FALSE, calls |-> {}, ocr |-> OcrNone, changed |-> FALSE,
               before |-> <<>>, get |-> NotIssued, slept |-> FALSE]
NoAnswers  == [field |-> NotIssued, count |-> NotIssued, list |-> NotIssued]

Pending == { d \in Docs : IsPending(docs[d].custom_fields, CUSTOM_FIELD_ID) }

\* ---- responses of the remote service
FieldResponses  == IF fieldExists THEN {200, 500, Raised} ELSE {404, Raised}
QueryResponses  == {200, 500, Raised}
DownloadResponses(d) == IF d \in Docs THEN {200, 500, Raised} ELSE {404, Raised}
RecordResponses == {200, 500, Raised}
PatchResponses  == {200, 202, 500, Raised}
\* The count of the list query; the index may still count a document whose
\* flag was set a moment ago.
CountReports ==
    {Cardinality(Pending)} \cup
    (IF Pending # Docs THEN {Cardinality(Pending) + 1} ELSE {})

\* No invocation in progress, nothing observed yet.
Idle ==
    /\ files = {}
    /\ bpc = "idle" /\ documents = <<>> /\ idx = 0 /\ custom_field_id = 0
    /\ b_file_path = NoPath /\ b_content = OcrNone /\ count = -1
    /\ hpc = "idle" /\ h_document_id = 0 /\ h_field = NoField
    /\ h_file_path = NoPath /\ h_content = OcrNone /\ response = NoResponse
    /\ pendingAtStart = {} /\ runCalls = {} /\ attempted = {} /\ bcalls = {}
    /\ bresp = NoAnswers /\ attemptedRun = {} /\ retried = FALSE
    /\ hcalls = {} /\ request = NoRequest
    /\ last = NoLast

Init ==
    /\ fieldExists \in BOOLEAN
    /\ docs \in [Docs -> { [title |-> "t", content |-> OldContent, custom_fields |-> l]
                             : l \in InitFieldLists }]
    /\ Idle
    /\ cf_in = <<>> /\ cf_out = <<>> /\ cf_done = FALSE

\* The record of a sub-flow that ends in this step.
\* nfiles: the scratch files when it ends; changed: it changed the record;
\* get: the answer to its record GET; slept: it ended with the pause.
Ended(who, d, outcome, path, calls, ocr, nfiles, changed, get, slept) ==
    [who |-> who, doc |-> d, outcome |-> outcome, created |-> path # NoPath,
     leaked |-> (path # NoPath /\ path \in nfiles), calls |-> calls, ocr |-> ocr,
     changed |-> changed,
     before |-> IF d \in Docs THEN docs[d].custom_fields ELSE <<>>,
     get |-> get, slept |-> slept]

\* ------------------------------------------------------ process_documents

\* The timer fires: process_documents is called.
StartBatchAny ==
    /\ bpc = "idle"
    /\ bpc' = "count"
    /\ count' = -1
    /\ pendingAtStart' = Pending
    /\ UNCHANGED <<upsertVars, remoteVars, files, documents, idx, custom_field_id,
                   b_file_path, b_content, httpVars, runCalls, attempted,
                   bcalls, bresp, attemptedRun, retried, httpObs, last>>

\* The invocations of the two entry points served one after the other.
StartBatch == hpc = "idle" /\ StartBatchAny

\* get_count_of_documents_without_azure_ocr, lines 79-85: 0 unless the
\* query answered 200, else the count it reports.
GetCountIgnoresStatus(status, reported) == reported
GetCount(status, reported) == IF status # 200 THEN 0 ELSE reported

\* while get_count_of_documents_without_azure_ocr(headers, secrets) > 0
WhileCondAlways(n) == n >= 0
WhileCond(n) == n > 0

BatchCount ==
    /\ bpc = "count"
    /\ \E fr \in FieldResponses :
         LET field == GetCustomField(fr) IN
         IF fr = Raised \/ ~field.found
         THEN \* raised in the loop condition, outside every try
              /\ bpc' = "raised"
              /\ runCalls' = runCalls \cup {"field"}
              /\ bresp' = [NoAnswers EXCEPT !.field = fr]
              /\ UNCHANGED count
         ELSE \E qr \in QueryResponses :
              IF qr = Raised
              THEN /\ bpc' = "raised"
                   /\ runCalls' = runCalls \cup {"field", "count"}
                   /\ bresp' = [NoAnswers EXCEPT !.field = fr, !.count = qr]
                   /\ UNCHANGED count
              ELSE \E n \in CountReports :
                   /\ count' = GetCount(qr, n)
                   /\ runCalls' = runCalls \cup {"field", "count"}
                   /\ bresp' = [NoAnswers EXCEPT !.field = fr, !.count = qr]
                   /\ bpc' = (IF WhileCond(count') THEN "list" ELSE "done")
    /\ last' = NoLast
    /\ UNCHANGED <<upsertVars, remoteVars, files, documents, idx, custom_field_id,
                   b_file_path, b_content, httpVars, pendingAtStart,
                   attempted, bcalls, attemptedRun, retried, httpObs>>

\* get_documents_without_azure_ocr, the unpacking of its result and the
\* empty-page test.
BatchList ==
    /\ bpc = "list"
    /\ \E fr \in FieldResponses :
         LET field == GetCustomField(fr)
             page  == FirstN(NewestFirst(Pending), BATCH_SIZE)
         IN
         IF fr = Raised \/ ~field.found
         THEN \* exception inside the outer try: logged, the while loop goes on
              /\ bpc' = "count"
              /\ runCalls' = runCalls \cup {"field"}
              /\ bresp' = [NoAnswers EXCEPT !.field = fr]
              /\ UNCHANGED <<documents, idx, custom_field_id, attempted>>
         ELSE \E qr \in QueryResponses :
              IF qr # 200
              THEN \* the call raised, or returned [] which cannot be unpacked
                   \* into two names: both end in the outer except
                   /\ bpc' = "count"
                   /\ runCalls' = runCalls \cup {"field", "list"}
                   /\ bresp' = [NoAnswers EXCEPT !.field = fr, !.list = qr]
                   /\ UNCHANGED <<documents, idx, custom_field_id, attempted>>
              ELSE /\ runCalls' = runCalls \cup {"field", "list"}
                   /\ bresp' = [NoAnswers EXCEPT !.field = fr, !.list = qr]
                   /\ custom_field_id' = field.id
                   /\ attempted' = {}
                   /\ IF page = <<>>
                      THEN bpc' = "done" /\ documents' = <<>> /\ idx' = 0
                      ELSE bpc' = "download" /\ documents' = page /\ idx' = 1
    /\ last' = NoLast
    /\ UNCHANGED <<upsertVars, remoteVars, files, b_file_path, b_content, count, httpVars,
                   pendingAtStart, bcalls, attemptedRun, retried, httpObs>>

\* The for loop moves to the next document, or the page is finished and the
\* while condition is evaluated again.
NextDoc ==
    /\ UNCHANGED documents
    /\ IF idx < Len(documents)
       THEN idx' = idx + 1 /\ bpc' = "download"
       ELSE idx' = 0 /\ bpc' = "count"

\* The inner except (lines 292-293): the exception is logged and the for
\* loop goes on with the next document.
InnerExceptMissing == idx' = 0 /\ bpc' = "count" /\ UNCHANGED documents
InnerExcept == NextDoc

\* download_document and the test of its result
BatchDownload ==
    /\ bpc = "download"
    /\ LET d == documents[idx] IN
       \E dr \in DownloadResponses(d) :
         /\ attempted' = attempted \cup {d}
         /\ attemptedRun' = attemptedRun \cup {d}
         /\ retried' = (retried \/ d \in attemptedRun)
         /\ runCalls' = runCalls \cup {"download"}
         /\ IF dr = 200
            THEN /\ files' = files \cup {d}
                 /\ b_file_path' = d
                 /\ bpc' = "ocr"
                 /\ bcalls' = {"download"}
                 /\ last' = NoLast
                 /\ UNCHANGED <<documents, idx>>
            ELSE \* None returned (continue) or the call raised (inner except)
                 /\ b_file_path' = NoPath
                 /\ bcalls' = {}
                 /\ last' = Ended("batch", d,
                                  IF dr = Raised THEN "exception" ELSE "download_failed",
                                  NoPath, {"download"}, OcrNone, files, FALSE,
                                  NotIssued, FALSE)
                 /\ IF dr = Raised THEN InnerExcept ELSE NextDoc
                 /\ UNCHANGED files
    /\ UNCHANGED <<upsertVars, remoteVars, custom_field_id, b_content, count, httpVars,
                   pendingAtStart, bresp, httpObs>>

\* process_with_azure_ocr and the test of its result
BatchOcr ==
    /\ bpc = "ocr"
    /\ LET d == documents[idx] IN
       \E engineOk \in BOOLEAN :
       \E pages \in (IF engineOk THEN OcrPages ELSE {<<>>}) :
         LET content == ProcessWithAzureOcr(engineOk /\ d \in files, pages) IN
         /\ runCalls' = runCalls \cup {"ocr"}
         /\ IF NoContent(content)
            THEN /\ files' = Cleanup(files, b_file_path)
                 /\ last' = Ended("batch", d, "ocr_failed", b_file_path,
                                  bcalls \cup {"ocr"}, content,
                                  Cleanup(files, b_file_path), FALSE,
                                  NotIssued, FALSE)
                 /\ b_file_path' = NoPath /\ b_content' = OcrNone
                 /\ bcalls' = {}
                 /\ NextDoc
            ELSE /\ b_content' = content
                 /\ bcalls' = bcalls \cup {"ocr"}
                 /\ bpc' = "update"
                 /\ UNCHANGED <<files, b_file_path, documents, idx, last>>
    /\ UNCHANGED <<upsertVars, remoteVars, custom_field_id, count, httpVars,
                   pendingAtStart, attempted, bresp, attemptedRun, retried,
                   httpObs>>

\* time.sleep(1) at line 290 is reached when update_document_content
\* returned, with either result; an exception jumps over it.
PauseOnSuccessOnly(result) == result = "true"
PauseReached(result) == result # "raise"

\* update_document_content, cleanup, the pause, and the inner except
BatchUpdate ==
    /\ bpc = "update"
    /\ LET d == documents[idx] IN
       \E gr \in RecordResponses :
       \E pr \in (IF gr = 200 THEN PatchResponses ELSE {Raised}) :
         LET u == UpdateDocumentContent(docs[d], b_content.text, custom_field_id, gr, pr) IN
         /\ docs' = [docs EXCEPT ![d] = u.rec]
         /\ runCalls' = runCalls \cup u.calls
         \* an exception skips cleanup and the pause: the inner except only logs
         /\ files' = (IF u.result = "raise" THEN files ELSE Cleanup(files, b_file_path))
         /\ last' = Ended("batch", d,
                          CASE u.result = "true"  -> "updated"
                            [] u.result = "false" -> "update_failed"
                            [] OTHER              -> "exception",
                          b_file_path, bcalls \cup u.calls, b_content,
                          IF u.result = "raise" THEN files
                          ELSE Cleanup(files, b_file_path),
                          u.rec # docs[d], gr,
                          PauseReached(u.result))
         /\ b_file_path' = NoPath /\ b_content' = OcrNone /\ bcalls' = {}
         /\ IF u.result = "raise" THEN InnerExcept ELSE NextDoc
    /\ UNCHANGED <<upsertVars, fieldExists, custom_field_id, count, httpVars,
                   pendingAtStart, attempted, bresp, attemptedRun, retried,
                   httpObs>>

\* process_documents returned, or raised to its caller
BatchReturn ==
    /\ bpc \in {"done", "raised"}
    /\ bpc' = "idle"
    /\ documents' = <<>> /\ idx' = 0 /\ custom_field_id' = 0
    /\ b_file_path' = NoPath /\ b_content' = OcrNone /\ count' = -1
    /\ pendingAtStart' = {} /\ runCalls' = {} /\ attempted' = {} /\ bcalls' = {}
    /\ bresp' = NoAnswers /\ attemptedRun' = {} /\ retried' = FALSE
    /\ last' = NoLast
    /\ UNCHANGED <<upsertVars, remoteVars, files, httpVars, httpObs>>

\* ------------------------------------------------ process_single_document

\* Request bodies: not JSON at all, or a JSON object whose document_id is
\* absent/0 (document_id = 0) or a number.
Bodies == { [json |-> FALSE, document_id |-> 0] } \cup
          { [json |-> TRUE, document_id |-> i] : i \in 0..MissingDoc }

Respond(status, message) ==
    /\ response' = [status |-> status, message |-> message]
    /\ hpc' = "responded"

\* Lines 69-95: the body, the secrets, the flag field and the download.
HttpReceiveAny ==
    /\ hpc = "idle"
    /\ \E body \in Bodies :
       \E secretsOk \in (IF body.json /\ body.document_id # 0 THEN BOOLEAN ELSE {TRUE}) :
       \E fr \in (IF body.json /\ body.document_id # 0 /\ secretsOk
                  THEN FieldResponses ELSE {Raised}) :
       \E dr \in (IF GetCustomField(fr).found
                  THEN DownloadResponses(body.document_id) ELSE {Raised}) :
         LET field == GetCustomField(fr)
             d == body.document_id
         IN
         /\ request' = body
         /\ IF ~body.json
            THEN \* req.get_json() raises ValueError: the outer except
                 /\ Respond(500, "error")
                 /\ UNCHANGED <<h_document_id, h_field, h_file_path, files, hcalls, last>>
            ELSE IF d = 0
            THEN /\ Respond(400, "provide_document_id")
                 /\ UNCHANGED <<h_document_id, h_field, h_file_path, files, hcalls, last>>
            ELSE IF ~secretsOk \/ fr = Raised
            THEN /\ Respond(500, "error")
                 /\ h_document_id' = d
                 /\ hcalls' = (IF secretsOk THEN {"field"} ELSE {})
                 /\ UNCHANGED <<h_field, h_file_path, files, last>>
            ELSE IF ~field.found
            THEN /\ Respond(500, "field_not_found")
                 /\ h_document_id' = d
                 /\ hcalls' = {"field"}
                 /\ UNCHANGED <<h_field, h_file_path, files, last>>
            ELSE IF dr # 200
            THEN /\ Respond(500, IF dr = Raised THEN "error" ELSE "download_failed")
                 /\ h_document_id' = d /\ h_field' = field
                 /\ hcalls' = {"field", "download"}
                 /\ last' = Ended("http", d,
                                  IF dr = Raised THEN "exception" ELSE "download_failed",
                                  NoPath, {"download"}, OcrNone, files, FALSE,
                                  NotIssued, FALSE)
                 /\ UNCHANGED <<h_file_path, files>>
            ELSE /\ h_document_id' = d /\ h_field' = field
                 /\ files' = files \cup {d}
                 /\ h_file_path' = d
                 /\ hcalls' = {"field", "download"}
                 /\ hpc' = "ocr"
                 /\ UNCHANGED <<response, last>>
    /\ UNCHANGED <<upsertVars, remoteVars, batchVars, batchObs, h_content>>

\* The request served while no batch run is in progress.
HttpReceive == bpc = "idle" /\ HttpReceiveAny

\* Lines 98-105
HttpOcr ==
    /\ hpc = "ocr"
    /\ LET d == h_document_id IN
       \E engineOk \in BOOLEAN :
       \E pages \in (IF engineOk THEN OcrPages ELSE {<<>>}) :
         LET content == ProcessWithAzureOcr(engineOk /\ d \in files, pages) IN
         IF NoContent(content)
         THEN /\ files' = Cleanup(files, h_file_path)
              /\ Respond(500, "ocr_failed")
              /\ hcalls' = hcalls \cup {"ocr"}
              /\ last' = Ended("http", d, "ocr_failed", h_file_path,
                               {"download", "ocr"}, content,
                               Cleanup(files, h_file_path), FALSE,
                               NotIssued, FALSE)
              /\ UNCHANGED h_content
         ELSE /\ h_content' = content
              /\ hcalls' = hcalls \cup {"ocr"}
              /\ hpc' = "update"
              /\ UNCHANGED <<files, response, last>>
    /\ UNCHANGED <<upsertVars, remoteVars, batchVars, batchObs, h_document_id, h_field,
                   h_file_path, request>>

\* Lines 107-129
HttpUpdate ==
    /\ hpc = "update"
    /\ LET d == h_document_id IN
       \E gr \in RecordResponses :
       \E pr \in (IF gr = 200 THEN PatchResponses ELSE {Raised}) :
         LET u == UpdateDocumentContent(docs[d], h_content.text, h_field.id, gr, pr) IN
         /\ docs' = [docs EXCEPT ![d] = u.rec]
         /\ hcalls' = hcalls \cup u.calls
         \* cleanup after the update, or in the inner except
         /\ files' = Cleanup(files, h_file_path)
         /\ CASE u.result = "true"  -> Respond(200, "success")
              [] u.result = "false" -> Respond(500, "update_failed")
              [] OTHER              -> Respond(500, "error_processing")
         /\ last' = Ended("http", d,
                          CASE u.result = "true"  -> "updated"
                            [] u.result = "false" -> "update_failed"
                            [] OTHER              -> "exception",
                          h_file_path, {"download", "ocr"} \cup u.calls, h_content,
                          Cleanup(files, h_file_path), u.rec # docs[d], gr, FALSE)
    /\ UNCHANGED <<upsertVars, fieldExists, batchVars, batchObs, h_document_id, h_field,
                   h_file_path, h_content, request>>

\* the response has been sent
HttpReturn ==
    /\ hpc = "responded"
    /\ hpc' = "idle"
    /\ h_document_id' = 0 /\ h_field' = NoField /\ h_file_path' = NoPath
    /\ h_content' = OcrNone /\ response' = NoResponse
    /\ hcalls' = {} /\ request' = NoRequest /\ last' = NoLast
    /\ UNCHANGED <<upsertVars, remoteVars, files, batchVars, batchObs>>

BatchStep == BatchCount \/ BatchList \/ BatchDownload \/ BatchOcr \/ BatchUpdate
             \/ BatchReturn

Next ==
    \/ StartBatch
    \/ BatchCount
    \/ BatchList
    \/ BatchDownload
    \/ BatchOcr
    \/ BatchUpdate
    \/ BatchReturn
    \/ HttpReceive
    \/ HttpOcr
    \/ HttpUpdate
    \/ HttpReturn

Spec == Init /\ [][Next]_vars

TypeOK ==
    /\ fieldExists \in BOOLEAN
    /\ files \subseteq Docs
    /\ bpc \in {"idle", "count", "list", "download", "ocr", "update", "done", "raised"}
    /\ hpc \in {"idle", "ocr", "update", "responded"}
    /\ idx \in 0..BATCH_SIZE
    /\ Len(documents) <= BATCH_SIZE

\* The batch run is one thread: whenever it can take a step it does.
FairSpec == Init /\ [][Next]_vars /\ WF_vars(BatchStep)

\* ------------------------------------- the upsert loop on bounded inputs
FieldEntries == { [field |-> f, value |-> v] : f \in 1..NumFields, v \in BOOLEAN }
FieldLists == UNION { [1..k -> FieldEntries] : k \in 0..MaxFields }

UpsertInit ==
    /\ fieldExists = TRUE
    /\ docs = [d \in Docs |->
                 [title |-> "t", content |-> OldContent, custom_fields |-> <<>>]]
    /\ Idle
    /\ cf_in \in FieldLists /\ cf_out = <<>> /\ cf_done = FALSE

\* lines 196-207 applied to cf_in with the flag field id
ApplyUpsert ==
    /\ ~cf_done
    /\ cf_out' = Upsert(cf_in, CUSTOM_FIELD_ID)
    /\ cf_done' = TRUE
    /\ UNCHANGED <<cf_in, remoteVars, files, batchVars, httpVars, batchObs,
                   httpObs, last>>

UpsertNext == ApplyUpsert

UpsertSpec == UpsertInit /\ [][UpsertNext]_vars

\* ================================================================ claims

HasFlagTrue(cfs) ==
    \E i \in 1..Len(cfs) : cfs[i].field = CUSTOM_FIELD_ID /\ cfs[i].value = TRUE

\* C1: when a batch run has returned, every document that was pending when
\* the run started carries the flag field with value true.
C1_AllPendingFlaggedAfterRun ==
    bpc = "done" => \A d \in pendingAtStart : HasFlagTrue(docs[d].custom_fields)

\* C2: every batch run that has started eventually ends (returns or raises).
C2_EveryRunTerminates ==
    (bpc = "count") ~> (bpc \in {"done", "raised"})

\* C3: a sub-flow whose download created the scratch file has removed it
\* when it ends, whatever its outcome.
C3_ScratchFileRemoved ==
    last.created => ~last.leaked

\* C4: no outcome of one document halts the page: every document before the
\* loop position has had its download requested, and when the page is left
\* every document of the page has.
C4_PageNotHalted ==
    /\ bpc = "download" => \A j \in 1..(idx - 1) : documents[j] \in attempted
    /\ bpc \in {"ocr", "update"} => \A j \in 1..idx : documents[j] \in attempted
    /\ bpc \in {"count", "list", "done", "raised"} =>
           \A j \in 1..Len(documents) : documents[j] \in attempted

\* the first document of a page ended in an exception and the for loop is at
\* the second one
C4_Witness ==
    /\ bpc = "download" /\ idx = 2
    /\ last.who = "batch" /\ last.doc = documents[1] /\ last.outcome = "exception"

\* C5: the upsert replaces the flag entry in place (same length) when the
\* field is in the list, appends exactly one entry (length + 1) when it is
\* not, and in both cases the result holds the flag field with value true.
C5_UpsertOnce ==
    cf_done =>
      LET present == \E i \in 1..Len(cf_in) : cf_in[i].field = CUSTOM_FIELD_ID
          flag    == [field |-> CUSTOM_FIELD_ID, value |-> TRUE]
      IN
      /\ present =>
           /\ Len(cf_out) = Len(cf_in)
           /\ \A i \in 1..Len(cf_in) :
                cf_in[i].field = CUSTOM_FIELD_ID => cf_out[i] = flag
      /\ ~present =>
           /\ Len(cf_out) = Len(cf_in) + 1
           /\ cf_out[Len(cf_out)] = flag
           /\ Cardinality({ i \in 1..Len(cf_out) :
                              cf_out[i].field = CUSTOM_FIELD_ID }) = 1
      /\ HasFlagTrue(cf_out)
      /\ \A i \in 1..Len(cf_out) :
           cf_out[i].field = CUSTOM_FIELD_ID => cf_out[i].value = TRUE

\* the loop has run on a list that holds the flag field with value false
\* next to another field
C5_Witness ==
    /\ cf_done /\ Len(cf_in) = 2
    /\ cf_in[1].field = CUSTOM_FIELD_ID /\ cf_in[1].value = FALSE
    /\ cf_in[2].field # CUSTOM_FIELD_ID

\* C6: with the flag field missing remotely, a batch run issues no request
\* but the custom-field GET and never gets past the first count.
C6_MissingFieldAborts ==
    (~fieldExists /\ bpc # "idle") =>
        /\ runCalls \subseteq {"field"}
        /\ bpc \in {"count", "raised"}
        /\ attempted = {}

C6_Witness ==
    ~fieldExists /\ bpc = "raised" /\ runCalls = {"field"} /\ pendingAtStart # {}

\* C7: a sub-flow whose OCR call gave no content (None or empty text) has
\* removed its scratch file and issued neither the record GET nor the PATCH;
\* it has not changed the record.
C7_NoContentNoPatch ==
    (last.who # "none" /\ "ocr" \in last.calls
        /\ (~last.ocr.ok \/ last.ocr.text = <<>>)) =>
        /\ last.created /\ ~last.leaked
        /\ "patch" \notin last.calls /\ "get" \notin last.calls
        /\ ~last.changed

\* the engine answered with no line at all
C7_Witness ==
    /\ last.outcome = "ocr_failed" /\ last.created
    /\ last.ocr.ok /\ last.ocr.text = <<>>
    /\ last.doc \notin files

\* the lines of all pages, in order
RECURSIVE AllLines(_)
AllLines(pages) ==
    IF pages = <<>> THEN <<>> ELSE Head(pages) \o AllLines(Tail(pages))

\* C8: a 200 response for a document that had no custom fields leaves the
\* document with exactly the entry (flag field, true) and with the content
\* made of every recognised line, in order, each followed by a newline.
C8_SingleDocumentResult ==
    (hpc = "responded" /\ response.status = 200 /\ last.before = <<>>) =>
        LET rec   == docs[last.doc]
            lines == AllLines(last.ocr.pages)
        IN
        /\ rec.custom_fields = << [field |-> CUSTOM_FIELD_ID, value |-> TRUE] >>
        /\ Len(rec.content) = 2 * Len(lines)
        /\ \A i \in 1..Len(lines) :
             rec.content[2 * i - 1] = lines[i] /\ rec.content[2 * i] = "\n"

C8_Witness ==
    /\ hpc = "responded" /\ response.status = 200 /\ last.before = <<>>
    /\ Len(last.ocr.pages) = 2

\* C9: once the count function has returned 0 the run is over: the only
\* step left is the return, and no remote call is added.
C9_ZeroCountEndsRun ==
    [][count = 0 =>
         (bpc = "done" /\ bpc' = "idle" /\ runCalls' \subseteq runCalls)]_vars

\* the count came back 0 after a page had been processed
C9_Witness ==
    count = 0 /\ bpc = "done" /\ "patch" \in runCalls

\* C10: 400 whenever the request carries no document identifier, 500 for
\* every downstream failure, 200 only when the update succeeded.
C10_StatusMapping ==
    hpc = "responded" =>
        /\ (~request.json \/ request.document_id = 0) => response.status = 400
        /\ (request.json /\ request.document_id # 0) => response.status \in {200, 500}
        /\ response.status = 200 =>
             (last.who = "http" /\ last.outcome = "updated" /\ "patch" \in last.calls)
        /\ response.status = 200 <=> response.message = "success"

\* C11: whenever the custom-field GET of a batch run answers not-found
\* (any status but 200), in the count step or in the list step, the run
\* has raised to its caller.
C11_MissingFieldAlwaysFatal ==
    (bresp.field \notin {NotIssued, 200, Raised}) => bpc = "raised"

\* C12: when the list request answers a status other than 200, the run
\* ends through the empty-page exit.
C12_FailedListEndsRun ==
    (bresp.list \notin {NotIssued, 200, Raised}) => bpc = "done"

\* C13: when the count request answers a status other than 200, the count
\* function returns 0 and the run ends normally: the only step left is the
\* return, and no request is issued, no record and no scratch file changed.
C13_FailedCountEndsRun ==
    [][(bresp.count \notin {NotIssued, 200, Raised}) =>
         /\ count = 0 /\ bpc = "done" /\ bpc' = "idle"
         /\ runCalls' \subseteq runCalls
         /\ docs' = docs /\ files' = files]_vars

\* the count request failed while documents were pending
C13_Witness ==
    bresp.count = 500 /\ bpc = "done" /\ count = 0 /\ Pending # {}

\* C14: in both variants OCR is called only after the download answered
\* 200, the record GET only after OCR gave non-empty text, and the PATCH
\* only after the record GET answered 200; after a failed step no later
\* request of the sub-flow is issued.
C14_CallOrder ==
    /\ bpc \in {"ocr", "update"} => (b_file_path # NoPath /\ "download" \in bcalls)
    /\ bpc = "update" => ("ocr" \in bcalls /\ b_content.ok /\ b_content.text # <<>>)
    /\ hpc \in {"ocr", "update"} => (h_file_path # NoPath /\ "download" \in hcalls)
    /\ hpc = "update" => ("ocr" \in hcalls /\ h_content.ok /\ h_content.text # <<>>)
    /\ "ocr" \in last.calls => ("download" \in last.calls /\ last.created)
    /\ "get" \in last.calls =>
           ("ocr" \in last.calls /\ last.ocr.ok /\ last.ocr.text # <<>>)
    /\ "patch" \in last.calls => ("get" \in last.calls /\ last.get = 200)

\* the record GET of a batch sub-flow failed and the sub-flow stopped there
C14_Witness ==
    /\ last.who = "batch" /\ last.get = 500
    /\ last.calls = {"download", "ocr", "get"}

\* C15 as stated: every sub-flow of a batch run ends with the one-second
\* pause, whatever its outcome, so the pause lies between any two
\* consecutive documents.
C15_PauseAfterEveryDocument ==
    last.who = "batch" => last.slept

\* C15 as amended: the pause follows exactly the sub-flows in which
\* update_document_content returned (updated or update failed); a download
\* failure, an OCR failure and an exception go on without it.
C15_PauseAfterUpdateOnly ==
    last.who = "batch" =>
        (last.slept <=> last.outcome \in {"updated", "update_failed"})

\* a failed update was followed by the pause and the next download is due
C15_Witness ==
    /\ last.who = "batch" /\ last.outcome = "update_failed" /\ last.slept
    /\ bpc = "download" /\ idx = 2

\* ------------------------------------------- overlapping invocations
\* Nothing in function_app.py serialises the two triggers: an HTTP request
\* can be served while a batch run is in progress, and the timer can fire
\* while a request is being served.
\* One pending document (the newest); the others carry the flag already.
ConcInit ==
    /\ fieldExists = TRUE
    /\ docs = [d \in Docs |->
                 [title |-> "t", content |-> OldContent,
                  custom_fields |->
                      IF d = NumDocs THEN <<>>
                      ELSE << [field |-> CUSTOM_FIELD_ID, value |-> TRUE] >>]]
    /\ Idle
    /\ cf_in = <<>> /\ cf_out = <<>> /\ cf_done = FALSE

ConcNext ==
    \/ StartBatchAny
    \/ BatchCount
    \/ BatchList
    \/ BatchDownload
    \/ BatchOcr
    \/ BatchUpdate
    \/ BatchReturn
    \/ HttpReceiveAny
    \/ HttpOcr
    \/ HttpUpdate
    \/ HttpReturn

ConcSpec == ConcInit /\ [][ConcNext]_vars

\* C16: no invocation works on a document's scratch file while another one
\* is between its download and its cleanup of the same path.
C16_OneWorkerPerScratchFile ==
    ~(/\ bpc \in {"ocr", "update"}
      /\ hpc \in {"ocr", "update"}
      /\ b_file_path = h_file_path)

\* C17: in one batch run no document has its download requested twice.
C17_NoRetryInRun ==
    ~retried

\* C18: in a batch run whose pages keep being fetched, every document that
\* was pending at the start has its download requested before the run ends.
C18_NoStarvation ==
    ([]<>(bpc = "download")) =>
        \A d \in Docs :
            (bpc = "count" /\ d \in pendingAtStart) ~>
                (d \in attemptedRun \/ bpc \in {"done", "raised"})

\* the entries of a custom-field list that are not the flag field, in order
IsOtherEntry(e) == e.field # CUSTOM_FIELD_ID
OtherEntries(cfs) == SelectSeq(cfs, IsOtherEntry)

\* C19: a step changes no record but the one whose update is in progress,
\* and of that record it leaves the title, the set of attributes and the
\* custom-field entries of every other field, in their order, as they were.
C19_UpdateFrame ==
    [][\A d \in Docs :
         /\ DOMAIN docs'[d] = DOMAIN docs[d]
         /\ docs'[d].title = docs[d].title
         /\ OtherEntries(docs'[d].custom_fields) = OtherEntries(docs[d].custom_fields)
         /\ docs'[d] # docs[d] =>
              \/ bpc = "update" /\ d = documents[idx]
              \/ hpc = "update" /\ d = h_document_id]_vars

\* a record with two other fields around the flag has been updated
C19_Witness ==
    /\ last.outcome = "updated" /\ last.changed
    /\ Len(OtherEntries(last.before)) = 2
    /\ Len(docs[last.doc].custom_fields) = 3
    /\ docs[last.doc].content # OldContent
====
